---- MODULE Spec2Model ----
(***************************************************************************)
(* Model of the hyperknow-homework prototypes: the three tools of the      *)
(* Tool Registry as implemented in agent.py, 2.py and 3.py, and the two    *)
(* hand-written dispatch loops (directorAgent.run in 2.py and              *)
(* HyperknowAgent.run in 3.py).                                            *)
(*                                                                         *)
(* Strings are sequences of characters over a small alphabet.  A Python    *)
(* call is modelled by its outcome: Ret(tag, val) when it returns and      *)
(* Raise(exc) when an exception leaves it.                                 *)
(***************************************************************************)
EXTENDS Integers, Sequences, FiniteSets, TLC

VARIABLES
    script,     \* which script runs: "agent.py", "2.py" or "3.py"
    memFile,    \* memory.json on disk
    docFile,    \* file_metadata.json on disk
    MEMORY_DB,  \* agent.py module global (loaded at import)
    FILES_DB,   \* agent.py module global (loaded at import)
    call,       \* the last tool invocation [tool, arg]
    result,     \* its outcome
    ctx,        \* the context block the reply tool built, if any
    state,      \* dispatch loop: IDLE, AWAITING_MODEL, EXECUTING_TOOL, DONE, RAISED
    messages,   \* the conversation held by the loop instance
    response,   \* the model response being handled
    pending,    \* tool calls of that response not yet executed
    nreq,       \* completion requests issued by the loop
    ncalls,     \* tool calls issued by the model
    nresp,      \* model responses that carried a tool call
    failed,     \* completion-service calls that failed: "completion", "stream"
    exc,        \* the exception that left run(), if any
    final,      \* the final answer
    nrun,       \* run() calls made on the loop instance
    base        \* turns the conversation held when the current run() began

toolVars == <<MEMORY_DB, FILES_DB>>
envVars == <<script, memFile, docFile>>
loopVars == <<state, messages, response, pending, nreq, ncalls, nresp, failed, exc, final>>
runVars == <<nrun, base>>
vars == <<script, memFile, docFile, MEMORY_DB, FILES_DB, call, result, ctx, loopVars, runVars>>

----------------------------------------------------------------------------
(* Bounds *)

MaxLen == 3        \* longest subject / keyword string
MaxTitles == 3     \* longest list of titles handed to the reply tool
MaxCalls == 3      \* most tool calls the model issues to one loop instance
MaxBatch == 2      \* most tool calls carried by one response (3.py)
MaxRuns == 2       \* most run() calls made on one loop instance

----------------------------------------------------------------------------
(* Strings *)

Alphabet == {"a", "b", "A", " "}

Str(n) == UNION {[1..k -> Alphabet] : k \in 0..n}

\* str.lower()
Lower(s) == [i \in 1..Len(s) |-> IF s[i] = "A" THEN "a" ELSE s[i]]

\* Python's  sub in s  on strings
Contains(sub, s) ==
    \E i \in 0..(Len(s) - Len(sub)) : SubSeq(s, i + 1, i + Len(sub)) = sub

\* str.split(): maximal runs of non-whitespace characters, in order
RECURSIVE SplitFrom(_, _, _)
SplitFrom(s, i, cur) ==
    IF i > Len(s)
    THEN IF cur = <<>> THEN <<>> ELSE <<cur>>
    ELSE IF s[i] = " "
         THEN (IF cur = <<>> THEN <<>> ELSE <<cur>>) \o SplitFrom(s, i + 1, <<>>)
         ELSE SplitFrom(s, i + 1, Append(cur, s[i]))

Split(s) == SplitFrom(s, 1, <<>>)

Range(f) == {f[i] : i \in DOMAIN f}

----------------------------------------------------------------------------
(* Outcomes of a call *)

Ret(tag, val) == [kind |-> "return", tag |-> tag, val |-> val]
Raise(e) == [kind |-> "raise", tag |-> e, val |-> <<>>]
NoResult == [kind |-> "none", tag |-> "none", val |-> <<>>]

NoCtx == [built |-> FALSE, block |-> <<>>]
Built(block) == [built |-> TRUE, block |-> block]

----------------------------------------------------------------------------
(* The two stores.  A JSON object is an ordered sequence of [key, value]   *)
(* entries with distinct keys (Python dicts iterate in insertion order).   *)

\* a file on disk: absent, not valid JSON, or a parsed object
Missing == [status |-> "missing", data |-> <<>>]
Invalid == [status |-> "invalid", data |-> <<>>]
Parsed(d) == [status |-> "ok", data |-> d]
Unloaded == [status |-> "unloaded", data |-> <<>>]

Keys(obj) == {obj[i].key : i \in DOMAIN obj}
Lookup(obj, k) == (CHOOSE i \in DOMAIN obj : obj[i].key = k)

\* knowledge records; a record may lack either field
RecPool ==
    { [level |-> 2, detailed_description |-> "basic"],
      [level |-> 1],
      [detailed_description |-> "advanced"] }

KeyPool == { <<"a">>, <<"a", "b">> }

KnowledgeLevels ==
    {<<>>}
    \cup { <<[key |-> k, val |-> r]>> : k \in KeyPool, r \in RecPool }
    \cup { kl \in { <<[key |-> k1, val |-> r1], [key |-> k2, val |-> r2]>> :
                       k1 \in KeyPool, k2 \in KeyPool, r1 \in RecPool, r2 \in RecPool } :
             kl[1].key # kl[2].key }

\* memory.json: {"knowledge_levels": {...}} or an object without that key
MemData ==
    { [knowledge_levels |-> kl, version |-> 1] : kl \in KnowledgeLevels }
    \cup { [version |-> 1] }

MemFiles == {Missing, Invalid} \cup { Parsed(d) : d \in MemData }

\* document records; a record may lack its content
T1 == <<"a">>
T2 == <<"b", " ", "A">>
T3 == <<"b">>          \* a title that is never in the store

ContentPool == { <<>>, <<"a", "b">>, <<"A", " ", "b">> }

InfoPool == { [content |-> c, pages |-> 1] : c \in ContentPool } \cup { [pages |-> 1] }

DocData ==
    {<<>>}
    \cup { <<[key |-> T1, val |-> i1], [key |-> T2, val |-> i2]>> :
             i1 \in InfoPool, i2 \in InfoPool }

DocFiles == {Missing, Invalid} \cup { Parsed(d) : d \in DocData }

----------------------------------------------------------------------------
(* agent.py: stores loaded at import, tools read the module globals *)

\* json.load(open(...)) without a handler
load_store(file) ==
    CASE file.status = "missing" -> Raise("FileNotFoundError")
      [] file.status = "invalid" -> Raise("JSONDecodeError")
      [] OTHER -> Ret("data", <<file.data>>)

\* MEMORY_DB.get("knowledge_levels", {})
knowledge_levels_of(data) ==
    IF "knowledge_levels" \in DOMAIN data THEN data.knowledge_levels ELSE <<>>

RECURSIVE get_memory_from(_, _, _)
get_memory_from(category, levels, i) ==
    IF i > Len(levels) THEN Ret("notfound", <<>>)
    ELSE IF Contains(Lower(category), Lower(levels[i].key))
         THEN IF "level" \notin DOMAIN levels[i].val THEN Raise("KeyError")
              ELSE IF "detailed_description" \notin DOMAIN levels[i].val
                   THEN Raise("KeyError")
                   ELSE Ret("record", <<levels[i].key, levels[i].val.level,
                                        levels[i].val.detailed_description>>)
         ELSE get_memory_from(category, levels, i + 1)

get_memory(category, db) == get_memory_from(category, knowledge_levels_of(db), 1)

\* any(k in content or k in title for k in kw_list)
search_hit(kw_list, content, title) ==
    \E j \in DOMAIN kw_list : Contains(kw_list[j], content) \/ Contains(kw_list[j], title)

RECURSIVE search_files_from(_, _, _, _)
search_files_from(kw_list, db, i, hits) ==
    IF i > Len(db) THEN Ret("titles", hits)
    ELSE IF "content" \notin DOMAIN db[i].val THEN Raise("KeyError")
         ELSE search_files_from(kw_list, db, i + 1,
                 IF search_hit(kw_list, Lower(db[i].val.content), Lower(db[i].key))
                 THEN Append(hits, db[i].key) ELSE hits)

search_files(keywords, db) == search_files_from(Split(Lower(keywords)), db, 1, <<>>)

\* f"\n--- File: {title} ---\n{content}\n"
file_block(title, content) ==
    <<"\n--- File: ">> \o title \o <<" ---\n">> \o content \o <<"\n">>

RECURSIVE full_context_from(_, _, _, _)
full_context_from(file_titles, db, i, acc) ==
    IF i > Len(file_titles) THEN Ret("context", acc)
    ELSE IF file_titles[i] \in Keys(db)
         THEN IF "content" \notin DOMAIN db[Lookup(db, file_titles[i])].val
              THEN Raise("KeyError")
              ELSE full_context_from(file_titles, db, i + 1,
                      acc \o file_block(file_titles[i],
                                        db[Lookup(db, file_titles[i])].val.content))
         ELSE full_context_from(file_titles, db, i + 1, acc)

\* the outcome and the context block built; streamOk is the service's answer
generate_reply_tool(file_titles, db, streamOk) ==
    LET c == full_context_from(file_titles, db, 1, <<>>) IN
    IF c.kind = "raise" THEN [res |-> c, ctx |-> NoCtx]
    ELSE [res |-> IF streamOk THEN Ret("reply", <<>>) ELSE Ret("error", <<"stream">>),
          ctx |-> Built(c.val)]

----------------------------------------------------------------------------
(* 2.py and 3.py: every tool opens its store file itself *)

memory_load_function_2(subject, file) ==
    IF file.status # "ok" THEN Ret("error", <<"read">>)
    ELSE LET knowledge_levels == knowledge_levels_of(file.data) IN
         IF Lower(subject) \in Keys(knowledge_levels)
         THEN Ret("record", <<knowledge_levels[Lookup(knowledge_levels, Lower(subject))].val>>)
         ELSE Ret("error", <<"notfound">>)

memory_load_function_3(subject, file) ==
    IF file.status # "ok" THEN Ret("error", <<"read">>)
    ELSE LET knowledge_levels == knowledge_levels_of(file.data) IN
         IF Lower(subject) \in Keys(knowledge_levels)
         THEN Ret("record", <<knowledge_levels[Lookup(knowledge_levels, Lower(subject))].val>>)
         ELSE Ret("error", <<"notfound">>)

\* info.get("content", "").lower()
content_or_empty(info) == IF "content" \in DOMAIN info THEN Lower(info.content) ELSE <<>>

RECURSIVE found_files_from(_, _, _, _)
found_files_from(query, file_data, i, found) ==
    IF i > Len(file_data) THEN found
    ELSE found_files_from(query, file_data, i + 1,
            IF Contains(Lower(query), content_or_empty(file_data[i].val))
            THEN Append(found, file_data[i].key) ELSE found)

select_files_2(query, file) ==
    CASE file.status = "missing" -> Ret("error", <<"nofile">>)
      [] file.status = "invalid" -> Ret("error", <<"search">>)
      [] OTHER -> Ret("titles", found_files_from(query, file.data, 1, <<>>))

select_files_3(query, file) ==
    IF file.status # "ok" THEN Ret("error", <<"search">>)
    ELSE Ret("titles", found_files_from(query, file.data, 1, <<>>))

\* f"\n--- 文件名: {title} ---\n{file_text}\n"
title_block(title, file_text) ==
    <<"\n--- title: ">> \o title \o <<" ---\n">> \o file_text \o <<"\n">>

\* variant: a title absent from the store gets an empty block
RECURSIVE context_content_unfiltered(_, _, _, _)
context_content_unfiltered(file_titles, all_files_data, i, acc) ==
    IF i > Len(file_titles) THEN Ret("context", acc)
    ELSE IF file_titles[i] \in Keys(all_files_data)
         THEN IF "content" \notin DOMAIN all_files_data[Lookup(all_files_data, file_titles[i])].val
              THEN Raise("KeyError")
              ELSE context_content_unfiltered(file_titles, all_files_data, i + 1,
                      acc \o title_block(file_titles[i],
                             all_files_data[Lookup(all_files_data, file_titles[i])].val.content))
         ELSE context_content_unfiltered(file_titles, all_files_data, i + 1,
                 acc \o title_block(file_titles[i], <<>>))

RECURSIVE context_content_from(_, _, _, _)
context_content_from(file_titles, all_files_data, i, acc) ==
    IF i > Len(file_titles) THEN Ret("context", acc)
    ELSE IF file_titles[i] \in Keys(all_files_data)
         THEN IF "content" \notin DOMAIN all_files_data[Lookup(all_files_data, file_titles[i])].val
              THEN Raise("KeyError")
              ELSE context_content_from(file_titles, all_files_data, i + 1,
                      acc \o title_block(file_titles[i],
                             all_files_data[Lookup(all_files_data, file_titles[i])].val.content))
         ELSE context_content_from(file_titles, all_files_data, i + 1, acc)

\* the try block that reads the store and builds context_content
read_context(file_titles, file) ==
    IF file.status # "ok" THEN Raise("OSError")
    ELSE context_content_from(file_titles, file.data, 1, <<>>)

reply_generator_2(file_titles, file, streamOk) ==
    LET c == read_context(file_titles, file) IN
    IF c.kind = "raise" THEN [res |-> Ret("error", <<"read">>), ctx |-> NoCtx]
    ELSE [res |-> IF streamOk THEN Ret("reply", <<>>) ELSE Ret("error", <<"stream">>),
          ctx |-> Built(c.val)]

\* the argument file_titles_json: the JSON text of a list of titles, text
\* that is not JSON, or the JSON text of a number
JsonList(items) == [t |-> "list", items |-> items]
JsonInvalid == [t |-> "invalid", items |-> <<>>]
JsonNumber == [t |-> "number", items |-> <<>>]

\* json.loads(file_titles_json) under the bare except: file_titles = []
loads_file_titles(file_titles_json) ==
    CASE file_titles_json.t = "list" -> Ret("list", file_titles_json.items)
      [] file_titles_json.t = "invalid" -> Ret("list", <<>>)
      [] OTHER -> Ret("number", <<>>)

reply_generator_3(file_titles_json, file, streamOk) ==
    LET file_titles == loads_file_titles(file_titles_json)
        c == IF file_titles.tag = "number" THEN Raise("TypeError")
             ELSE read_context(file_titles.val, file)
    IN
    IF c.kind = "raise" THEN [res |-> Ret("error", <<"read">>), ctx |-> NoCtx]
    ELSE IF streamOk THEN [res |-> Ret("reply", <<>>), ctx |-> Built(c.val)]
         ELSE [res |-> Raise("APIError"), ctx |-> Built(c.val)]

----------------------------------------------------------------------------
(* The Tool Registry exercised directly: each tool applied to one input *)

Scripts == {"agent.py", "2.py", "3.py"}

TitlePool == {T1, T2, T3}
TitleLists == UNION {[1..k -> TitlePool] : k \in 0..MaxTitles}

Invocation(tool, str, titles, streamOk) ==
    [tool |-> tool, str |-> str, titles |-> titles, streamOk |-> streamOk]
NoCall == Invocation("none", <<>>, JsonList(<<>>), TRUE)

NoExc == [tag |-> "none", origin |-> "none"]
NoResponse == [kind |-> "none"]

\* no request is being served
LoopIdle ==
    /\ state = "IDLE"
    /\ messages = <<>>
    /\ response = NoResponse
    /\ pending = <<>>
    /\ nreq = 0
    /\ ncalls = 0
    /\ nresp = 0
    /\ failed = {}
    /\ exc = NoExc
    /\ final = NoResponse
    /\ nrun = 0
    /\ base = 0

\* the store a tool does not read is left at a fixed well-formed value
DefaultMem == Parsed([knowledge_levels |-> <<>>, version |-> 1])
DefaultDoc == Parsed(<<>>)

InitTools ==
    /\ script \in Scripts
    /\ memFile \in MemFiles
    /\ docFile \in DocFiles
    /\ memFile = DefaultMem \/ docFile = DefaultDoc
    /\ MEMORY_DB = Unloaded
    /\ FILES_DB = Unloaded
    /\ call = NoCall
    /\ result = NoResult
    /\ ctx = NoCtx
    /\ LoopIdle

\* agent.py lines 17-21: both stores are read when the module is imported
ImportAgent ==
    /\ script = "agent.py"
    /\ call.tool = "none"
    /\ call' = Invocation("import", <<>>, JsonList(<<>>), TRUE)
    /\ LET m == load_store(memFile)
           f == load_store(docFile)
       IN IF m.kind = "raise"
          THEN /\ result' = m
               /\ UNCHANGED <<MEMORY_DB, FILES_DB>>
          ELSE /\ MEMORY_DB' = Parsed(m.val[1])
               /\ IF f.kind = "raise"
                  THEN result' = f /\ UNCHANGED FILES_DB
                  ELSE result' = Ret("imported", <<>>) /\ FILES_DB' = Parsed(f.val[1])
    /\ UNCHANGED <<script, memFile, docFile, ctx, loopVars, runVars>>

\* one tool is applied to one input; agent.py's tools exist only once the
\* import succeeded
Callable ==
    IF script = "agent.py"
    THEN call.tool = "import" /\ MEMORY_DB.status = "ok" /\ FILES_DB.status = "ok"
    ELSE call.tool = "none"

LookupKnowledge(S) ==
    /\ Callable
    /\ call' = Invocation("lookup", S, JsonList(<<>>), TRUE)
    /\ result' = CASE script = "agent.py" -> get_memory(S, MEMORY_DB.data)
                   [] script = "2.py" -> memory_load_function_2(S, memFile)
                   [] OTHER -> memory_load_function_3(S, memFile)
    /\ ctx' = NoCtx
    /\ UNCHANGED <<script, memFile, docFile, MEMORY_DB, FILES_DB, loopVars, runVars>>

FindDocuments(K) ==
    /\ Callable
    /\ call' = Invocation("search", K, JsonList(<<>>), TRUE)
    /\ result' = CASE script = "agent.py" -> search_files(K, FILES_DB.data)
                   [] script = "2.py" -> select_files_2(K, docFile)
                   [] OTHER -> select_files_3(K, docFile)
    /\ ctx' = NoCtx
    /\ UNCHANGED <<script, memFile, docFile, MEMORY_DB, FILES_DB, loopVars, runVars>>

ComposeReply(titles, streamOk) ==
    /\ Callable
    /\ titles.t # "list" => script = "3.py"
    /\ call' = Invocation("reply", <<>>, titles, streamOk)
    /\ LET r == CASE script = "agent.py" ->
                       generate_reply_tool(titles.items, FILES_DB.data, streamOk)
                  [] script = "2.py" -> reply_generator_2(titles.items, docFile, streamOk)
                  [] OTHER -> reply_generator_3(titles, docFile, streamOk)
       IN result' = r.res /\ ctx' = r.ctx
    /\ UNCHANGED <<script, memFile, docFile, MEMORY_DB, FILES_DB, loopVars, runVars>>

TitleArgs == { JsonList(l) : l \in TitleLists } \cup {JsonInvalid, JsonNumber}

NextTools ==
    \/ ImportAgent
    \/ \E S \in Str(MaxLen) : LookupKnowledge(S)
    \/ \E K \in Str(MaxLen) : FindDocuments(K)
    \/ \E titles \in TitleArgs, streamOk \in BOOLEAN : ComposeReply(titles, streamOk)

SpecTools == InitTools /\ [][NextTools]_vars

----------------------------------------------------------------------------
(* The dispatch loops of 2.py (directorAgent) and 3.py (HyperknowAgent) *)

LoopScripts == {"2.py", "3.py"}

\* TOOL_MAP (2.py) and available_functions (3.py) have the same keys
TOOL_MAP == {"memory_load_function", "select_files", "reply_generator"}

\* the parameters each tool function declares (none has a default)
ParamsOf(s, tool) ==
    CASE tool = "memory_load_function" -> {"subject"}
      [] tool = "select_files" -> {"query"}
      [] tool = "reply_generator" ->
            IF s = "2.py" THEN {"file_titles", "instruction"}
            ELSE {"file_titles_json", "instruction"}

\* a tool name as the model wrote it: a string, absent (None), or a list
NameStr(v) == [t |-> "str", v |-> v]
NameNone == [t |-> "none", v |-> ""]
NameList == [t |-> "list", v |-> ""]

\* the argument value: a mapping with these keys, a JSON value that is not
\* a mapping, or (3.py, where it arrives as text) text that is not JSON
ArgsMap(params, str, titles) ==
    [t |-> "map", params |-> params, str |-> str, titles |-> titles]
ArgsNotMap == [t |-> "notmap", params |-> {}, str |-> <<>>, titles |-> JsonList(<<>>)]
ArgsUnparsable == [t |-> "unparsable", params |-> {}, str |-> <<>>, titles |-> JsonList(<<>>)]

ToolCall(name, args) == [name |-> name, args |-> args]

\* the argument values the model sends in this model: per tool one or two
\* well-formed mappings and one ill-formed value
GoodArgs(s, tool) ==
    CASE tool = "memory_load_function" ->
            { ArgsMap(ParamsOf(s, tool), <<"a">>, JsonList(<<>>)) }
      [] tool = "select_files" ->
            { ArgsMap(ParamsOf(s, tool), <<>>, JsonList(<<>>)) }
      [] OTHER ->
            { ArgsMap(ParamsOf(s, tool), <<>>, l) :
                l \in IF s = "2.py" THEN {JsonList(<<T1, T3>>)}
                      ELSE {JsonList(<<T1, T3>>), JsonInvalid} }

BadArgs(s, tool) ==
    CASE tool = "memory_load_function" -> { ArgsMap({"topic"}, <<"a">>, JsonList(<<>>)) }
      [] tool = "select_files" -> { ArgsNotMap }
      [] OTHER -> IF s = "3.py" THEN { ArgsUnparsable } ELSE {}

\* the tool calls the model may issue
ToolCalls(s) ==
    UNION { { ToolCall(NameStr(tool), a) : a \in GoodArgs(s, tool) \cup BadArgs(s, tool) } :
              tool \in TOOL_MAP }
    \cup { ToolCall(NameStr("no_such_tool"), ArgsMap({"subject"}, <<"a">>, JsonList(<<>>))) }
    \cup (IF s = "2.py"
          THEN { ToolCall(n, ArgsMap({"subject"}, <<"a">>, JsonList(<<>>))) :
                   n \in {NameNone, NameList} }
          ELSE {})

NoToolCall == ToolCall(NameNone, ArgsNotMap)

\* 2.py: the response text.  kind "plain": no braces; "invalid": the
\* outermost {...} span is not JSON; "object": the span is a JSON object
\* whose "call_function" entry is cf
CfAbsent == [t |-> "absent", call |-> NoToolCall]
CfNull == [t |-> "null", call |-> NoToolCall]
CfString == [t |-> "string", call |-> NoToolCall]
CfEmptyMap == [t |-> "emptymap", call |-> NoToolCall]
CfMap(c) == [t |-> "map", call |-> c]

Text2(kind, cf) == [kind |-> kind, cf |-> cf, calls |-> <<>>]

Responses2 ==
    { Text2("plain", CfAbsent), Text2("invalid", CfAbsent) }
    \cup { Text2("object", cf) : cf \in {CfAbsent, CfNull, CfString, CfEmptyMap} }
    \cup { Text2("object", CfMap(c)) : c \in ToolCalls("2.py") }

\* 3.py: response_message with tool_calls (a non-empty list) or without
Message3(kind, calls) == [kind |-> kind, cf |-> CfAbsent, calls |-> calls]

Responses3 ==
    { Message3("text", <<>>) }
    \cup { Message3("tool_calls", cs) :
             cs \in UNION { [1..k -> ToolCalls("3.py")] : k \in 1..MaxBatch } }

\* _parse_function_call: json.loads of the outermost span, then
\* call_data.get("call_function", {}); any exception gives {}
parse_function_call(model_output) ==
    IF model_output.kind \in {"plain", "invalid"} THEN CfEmptyMap
    ELSE IF model_output.cf.t = "absent" THEN CfEmptyMap
         ELSE model_output.cf

\* Python truthiness of the parsed value
Truthy(func_call) == func_call.t \in {"string", "map"}

\* _execute_function (2.py): the outcome of one tool call
execute_function(tc, mem, doc, streamOk) ==
    IF tc.name.t = "list" THEN [res |-> Raise("TypeError"), ctx |-> NoCtx]
    ELSE IF tc.name.t = "none" \/ tc.name.v \notin TOOL_MAP
         THEN [res |-> Ret("error", <<"nofunc">>), ctx |-> NoCtx]
         ELSE IF tc.args.t # "map" \/ tc.args.params # ParamsOf("2.py", tc.name.v)
              THEN [res |-> Ret("error", <<"exec">>), ctx |-> NoCtx]
              ELSE CASE tc.name.v = "memory_load_function" ->
                          [res |-> memory_load_function_2(tc.args.str, mem), ctx |-> NoCtx]
                     [] tc.name.v = "select_files" ->
                          [res |-> select_files_2(tc.args.str, doc), ctx |-> NoCtx]
                     [] OTHER -> reply_generator_2(tc.args.titles.items, doc, streamOk)

\* 3.py lines 206-214: look the function up, parse the arguments, call it
call_tool(tc, mem, doc, streamOk) ==
    IF tc.name.v \notin TOOL_MAP THEN [res |-> Raise("KeyError"), ctx |-> NoCtx]
    ELSE IF tc.args.t = "unparsable" THEN [res |-> Raise("JSONDecodeError"), ctx |-> NoCtx]
         ELSE IF tc.args.t # "map" \/ tc.args.params # ParamsOf("3.py", tc.name.v)
              THEN [res |-> Raise("TypeError"), ctx |-> NoCtx]
              ELSE CASE tc.name.v = "memory_load_function" ->
                          [res |-> memory_load_function_3(tc.args.str, mem), ctx |-> NoCtx]
                     [] tc.name.v = "select_files" ->
                          [res |-> select_files_3(tc.args.str, doc), ctx |-> NoCtx]
                     [] OTHER -> reply_generator_3(tc.args.titles, doc, streamOk)

\* the streamed completion inside the reply tool was requested and failed
StreamFails(tc, out, streamOk) ==
    /\ ~streamOk
    /\ tc.name = NameStr("reply_generator")
    /\ out.ctx.built

\* turns of the conversation
UserTurn == [role |-> "user", calls |-> {}, id |-> 0, tag |-> "query"]
AssistantTurn(ids) == [role |-> "assistant", calls |-> ids, id |-> 0, tag |-> "tool_calls"]
ToolTurn(id, tag) == [role |-> "tool", calls |-> {}, id |-> id, tag |-> tag]

Pending(id, tc) == [id |-> id, tc |-> tc]

\* variant: the failed call is issued again
retry(n) == [state |-> "AWAITING_MODEL", nreq |-> IF n <= MaxCalls THEN n + 1 ELSE n]

\* an exception with no handler in run() leaves run(): the request ends
propagate(n) == [state |-> "RAISED", nreq |-> n]

\* variant: the for loop is left after the first call
rest_dropped(tool_calls) == <<>>

\* the calls of the response still to be executed after the current one
rest_of(tool_calls) == Tail(tool_calls)

LoopEnvMem == { Missing, Parsed([knowledge_levels |->
                    <<[key |-> <<"a">>, val |-> [level |-> 2, detailed_description |-> "basic"]]>>,
                    version |-> 1]) }

LoopEnvDoc == { Missing,
                Parsed(<<[key |-> T1, val |-> [content |-> <<"a", "b">>, pages |-> 1]],
                         [key |-> T2, val |-> [pages |-> 1]]>>) }

Init ==
    /\ script \in LoopScripts
    /\ memFile \in LoopEnvMem
    /\ docFile \in LoopEnvDoc
    /\ MEMORY_DB = Unloaded
    /\ FILES_DB = Unloaded
    /\ call = NoCall
    /\ result = NoResult
    /\ ctx = NoCtx
    /\ LoopIdle

\* variant: run() starts from an emptied conversation
start_fresh(history) == <<UserTurn>>

\* 3.py line 185: the user's input is appended to the instance's messages
\* (2.py line 159: it is sent on the instance's chat_session)
start_turns(history) == Append(history, UserTurn)

\* run(user_query) up to its first completion request
Run ==
    /\ state = "IDLE"
    /\ messages' = start_turns(messages)
    /\ nrun' = 1
    /\ base' = Len(start_turns(messages)) - 1
    /\ nreq' = 1
    /\ state' = "AWAITING_MODEL"
    /\ UNCHANGED <<envVars, toolVars, call, result, ctx,
                   response, pending, ncalls, nresp, failed, exc, final>>

\* send_message / chat.completions.create raises
CompletionFails ==
    /\ state = "AWAITING_MODEL"
    /\ state' = propagate(nreq).state
    /\ nreq' = propagate(nreq).nreq
    /\ failed' = failed \cup {"completion"}
    /\ exc' = [tag |-> "APIError", origin |-> "completion"]
    /\ UNCHANGED <<envVars, toolVars, runVars, call, result, ctx,
                   messages, response, pending, ncalls, nresp, final>>

\* 2.py lines 165-175: one response text is parsed
Respond2(r) ==
    /\ script = "2.py"
    /\ state = "AWAITING_MODEL"
    /\ response' = r
    /\ LET func_call == parse_function_call(r) IN
       IF ~Truthy(func_call)
       THEN /\ state' = "DONE"
            /\ final' = r
            /\ UNCHANGED <<pending, ncalls, nresp, exc>>
       ELSE IF func_call.t # "map"
            THEN /\ state' = propagate(nreq).state
                 /\ exc' = [tag |-> "AttributeError", origin |-> "instruction"]
                 /\ UNCHANGED <<pending, ncalls, nresp, final>>
            ELSE /\ ncalls < MaxCalls
                 /\ state' = "EXECUTING_TOOL"
                 /\ pending' = <<Pending(ncalls + 1, func_call.call)>>
                 /\ ncalls' = ncalls + 1
                 /\ nresp' = nresp + 1
                 /\ UNCHANGED <<exc, final>>
    /\ UNCHANGED <<envVars, toolVars, runVars, call, result, ctx, messages, nreq, failed>>

\* 2.py lines 178-191: the call is executed and its result sent back
Execute2(streamOk) ==
    /\ script = "2.py"
    /\ state = "EXECUTING_TOOL"
    /\ LET p == Head(pending)
           out == execute_function(p.tc, memFile, docFile, streamOk)
       IN /\ call' = Invocation(p.tc.name.v, p.tc.args.str, p.tc.args.titles, streamOk)
          /\ result' = out.res
          /\ ctx' = out.ctx
          /\ failed' = IF StreamFails(p.tc, out, streamOk)
                       THEN failed \cup {"stream"} ELSE failed
          /\ IF out.res.kind = "raise"
             THEN /\ state' = propagate(nreq).state
                  /\ nreq' = propagate(nreq).nreq
                  /\ exc' = [tag |-> out.res.tag, origin |-> "instruction"]
                  /\ UNCHANGED <<messages, pending>>
             ELSE /\ messages' = Append(messages, ToolTurn(p.id, out.res.tag))
                  /\ pending' = rest_of(pending)
                  /\ nreq' = nreq + 1
                  /\ state' = "AWAITING_MODEL"
                  /\ UNCHANGED exc
    /\ UNCHANGED <<envVars, toolVars, runVars, response, ncalls, nresp, final>>

\* 3.py lines 196-203 and 226-229: one response message is received
Respond3(r) ==
    /\ script = "3.py"
    /\ state = "AWAITING_MODEL"
    /\ response' = r
    /\ IF r.kind = "text"
       THEN /\ state' = "DONE"
            /\ final' = r
            /\ UNCHANGED <<messages, pending, ncalls, nresp>>
       ELSE /\ ncalls + Len(r.calls) <= MaxCalls
            /\ messages' = Append(messages,
                               AssistantTurn({ncalls + i : i \in DOMAIN r.calls}))
            /\ pending' = [i \in DOMAIN r.calls |-> Pending(ncalls + i, r.calls[i])]
            /\ ncalls' = ncalls + Len(r.calls)
            /\ nresp' = nresp + 1
            /\ state' = "EXECUTING_TOOL"
            /\ UNCHANGED final
    /\ UNCHANGED <<envVars, toolVars, runVars, call, result, ctx, nreq, failed, exc>>

\* 3.py lines 205-225, and line 189 once the for loop is exhausted
Execute3(streamOk) ==
    /\ script = "3.py"
    /\ state = "EXECUTING_TOOL"
    /\ LET p == Head(pending)
           out == call_tool(p.tc, memFile, docFile, streamOk)
       IN /\ call' = Invocation(p.tc.name.v, p.tc.args.str, p.tc.args.titles, streamOk)
          /\ result' = out.res
          /\ ctx' = out.ctx
          /\ failed' = IF StreamFails(p.tc, out, streamOk)
                       THEN failed \cup {"stream"} ELSE failed
          /\ IF out.res.kind = "raise"
             THEN /\ state' = propagate(nreq).state
                  /\ nreq' = propagate(nreq).nreq
                  /\ exc' = [tag |-> out.res.tag,
                             origin |-> IF out.res.tag = "APIError"
                                        THEN "stream" ELSE "dispatch"]
                  /\ UNCHANGED <<messages, pending>>
             ELSE /\ messages' = Append(messages, ToolTurn(p.id, out.res.tag))
                  /\ pending' = rest_of(pending)
                  /\ IF rest_of(pending) = <<>>
                     THEN nreq' = nreq + 1 /\ state' = "AWAITING_MODEL"
                     ELSE UNCHANGED <<nreq, state>>
                  /\ UNCHANGED exc
    /\ UNCHANGED <<envVars, toolVars, runVars, response, ncalls, nresp, final>>

Next ==
    \/ Run
    \/ CompletionFails
    \/ \E r \in Responses2 : Respond2(r)
    \/ \E streamOk \in BOOLEAN : Execute2(streamOk)
    \/ \E r \in Responses3 : Respond3(r)
    \/ \E streamOk \in BOOLEAN : Execute3(streamOk)

Spec == Init /\ [][Next]_vars

----------------------------------------------------------------------------
(* Several requests served by one loop instance *)

\* run(user_query) called again on the same instance after an earlier run
\* returned or raised; self.messages / self.chat_session are those of
\* __init__, everything else is local to run().  The counters nreq, ncalls
\* and nresp run on over the requests of the instance, so that tool call
\* ids stay distinct within its conversation.  What a chat_session of 2.py
\* holds after a send_message that failed is decided by the client library,
\* so no further run() is modelled on such an instance.
RunAgain ==
    /\ state \in {"DONE", "RAISED"}
    /\ ~(script = "2.py" /\ exc.origin = "completion")
    /\ nrun < MaxRuns
    /\ messages' = start_turns(messages)
    /\ nrun' = nrun + 1
    /\ base' = Len(start_turns(messages)) - 1
    /\ state' = "AWAITING_MODEL"
    /\ nreq' = nreq + 1
    /\ response' = NoResponse
    /\ pending' = <<>>
    /\ failed' = {}
    /\ exc' = NoExc
    /\ final' = NoResponse
    /\ call' = NoCall
    /\ result' = NoResult
    /\ ctx' = NoCtx
    /\ UNCHANGED <<envVars, toolVars, ncalls, nresp>>

NextMulti == Next \/ RunAgain

SpecMulti == Init /\ [][NextMulti]_vars

----------------------------------------------------------------------------
(* Properties of the dispatch loops (checked under Spec) *)

UnknownTool(tc) == tc.name.t = "str" /\ tc.name.v \notin TOOL_MAP

\* C1: executing a call whose name is not in the registry does not end the
\* run: an error payload becomes that call's tool result, it is appended as
\* the next turn, and (the call being the last of its response) the next
\* completion request is issued and the loop awaits the model again.
C1_UnknownToolFeedsErrorBack ==
    [][(state = "EXECUTING_TOOL" /\ UnknownTool(Head(pending).tc)) =>
          /\ state' # "RAISED"
          /\ result'.kind = "return" /\ result'.tag = "error"
          /\ messages' = Append(messages, ToolTurn(Head(pending).id, "error"))
          /\ Len(pending) = 1 => (state' = "AWAITING_MODEL" /\ nreq' = nreq + 1)]_vars

\* C2: when the completion service answered every request and no response
\* was malformed, a run that has ended has ended in DONE, after as many
\* completion requests as tool calls issued plus one.
C2_DoneAfterCallsPlusOne ==
    (state \in {"DONE", "RAISED"} /\ failed = {} /\ exc.origin # "instruction")
        => (state = "DONE" /\ nreq = ncalls + 1)

\* C3: a run is ended only by a terminal text or by a failure of the loop's
\* own completion call; a failing tool call (bad arguments, unparsable
\* argument text, an exception in the tool body) never ends it.  Unknown
\* tool names (C1) and malformed instructions (C8) are left aside here.
C3_ToolFailuresNeverEndTheRun ==
    state = "RAISED" =>
        \/ exc.origin \in {"completion", "instruction"}
        \/ exc.tag = "KeyError"

\* tool calls requested by the model whose result is not in the conversation
Outstanding == (1..ncalls) \ {messages[i].id : i \in DOMAIN messages}

\* C4 as stated: exactly one tool call is outstanding while a tool executes
\* and none while the loop awaits the model.
C4_ExactlyOneOutstanding ==
    /\ state = "EXECUTING_TOOL" => Cardinality(Outstanding) = 1
    /\ state = "AWAITING_MODEL" => Outstanding = {}

\* C4 amended: no completion request is outstanding or answered while a
\* requested tool call lacks its result; while tools execute, the
\* outstanding calls are exactly the not yet executed calls of the current
\* response, at least one, and exactly one in directorAgent.run.
C4_NoRequestWhileResultUnsent ==
    /\ state \in {"AWAITING_MODEL", "DONE"} => Outstanding = {}
    /\ state = "EXECUTING_TOOL" =>
          /\ pending # <<>>
          /\ Outstanding = {pending[i].id : i \in DOMAIN pending}
          /\ script = "2.py" => Len(pending) = 1

\* C4 witness: HyperknowAgent.run awaits the model after one response that
\* carried two tool calls, both answered
C4_Witness ==
    /\ script = "3.py"
    /\ state = "AWAITING_MODEL"
    /\ nreq = 2
    /\ ncalls = 2
    /\ Outstanding = {}

Malformed(r) ==
    \/ r.kind \in {"plain", "invalid"}
    \/ r.kind = "object" /\ r.cf.t \in {"absent", "null", "string"}

\* C8: in directorAgent.run a response whose instruction is not a
\* well-formed call ends the run in DONE with that response as the answer.
C8_MalformedCallIsNoCall ==
    (script = "2.py" /\ response.kind \in {"plain", "invalid", "object"}
       /\ Malformed(response))
        => (state = "DONE" /\ final = response)

\* C10 as stated: once any completion or stream call has failed the run has
\* ended and no further completion request is issued.
C10_AnyServiceFailureIsTerminal ==
    [][/\ failed' # {} => state' = "RAISED"
       /\ failed # {} => nreq' = nreq]_vars

\* failures that leave run(): the loop's own completion call, and in
\* HyperknowAgent.run also the stream requested inside reply_generator
LoopFatal(f, s) == "completion" \in f \/ (s = "3.py" /\ "stream" \in f)

\* C10 amended: a failure of the loop's own completion call (and, in
\* HyperknowAgent.run, of the stream inside the reply tool) ends the run and
\* no further completion request is issued; in directorAgent.run a failed
\* stream inside reply_generator is returned as an error result instead.
C10_LoopCallFailureIsTerminal ==
    [][/\ LoopFatal(failed', script') => state' = "RAISED"
       /\ LoopFatal(failed, script) => (nreq' = nreq /\ state' = state)]_vars

\* C10 witness: the second completion request of a run failed
C10_Witness ==
    /\ "completion" \in failed
    /\ state = "RAISED"
    /\ nreq = 2
    /\ ncalls >= 1

----------------------------------------------------------------------------
(* Properties of the Tool Registry (checked under SpecTools) *)

\* the document store / knowledge mapping the invoked tool reads
DocStore == IF script = "agent.py" THEN FILES_DB ELSE docFile
MemStore == IF script = "agent.py" THEN MEMORY_DB ELSE memFile

WellFormedDocs(store) ==
    /\ store.status = "ok"
    /\ \A i \in DOMAIN store.data : "content" \in DOMAIN store.data[i].val

\* titles matching at least one token of K, in store order
Matches(K, entry) ==
    \E tok \in Range(Split(Lower(K))) :
        \/ Contains(tok, Lower(entry.val.content))
        \/ Contains(tok, Lower(entry.key))

MatchingTitles(K, data) ==
    LET hit == SelectSeq(data, LAMBDA e : Matches(K, e))
    IN [i \in 1..Len(hit) |-> hit[i].key]

\* C5: over a well-formed document store the search tool returns exactly
\* the titles whose content or title contains a lower-cased whitespace-split
\* token of K, in store order, and the empty list when K has no token.
C5_SearchReturnsTokenMatches ==
    (call.tool = "search" /\ WellFormedDocs(DocStore))
        => result = Ret("titles", MatchingTitles(call.str, DocStore.data))

\* the lookup's answer carries the record stored under key
CarriesRecord(res, key, rec) ==
    /\ res.kind = "return"
    /\ res.tag = "record"
    /\ IF script = "agent.py"
       THEN /\ res.val[1] = key
            /\ "level" \in DOMAIN rec => res.val[2] = rec.level
            /\ "detailed_description" \in DOMAIN rec => res.val[3] = rec.detailed_description
       ELSE res.val[1] = rec

NotFoundMarker(res) == res.kind = "return" /\ res.tag \in {"notfound", "error"}

\* C6: the lookup never raises; a subject equal to a key up to case yields
\* the record stored under that key; a subject matching no key yields a
\* NotFound marker.
C6_LookupTotalAndExact ==
    call.tool = "lookup" =>
        LET levels == IF MemStore.status = "ok"
                      THEN knowledge_levels_of(MemStore.data) ELSE <<>>
            hits == {i \in DOMAIN levels : Lower(levels[i].key) = Lower(call.str)}
        IN /\ result.kind = "return"
           /\ \A i \in hits : CarriesRecord(result, levels[i].key, levels[i].val)
           /\ hits = {} => NotFoundMarker(result)

\* what one context block looks like for a title and its content
BlockOf(title, content) ==
    IF script = "agent.py" THEN file_block(title, content) ELSE title_block(title, content)

ContentOf(data, title) == data[Lookup(data, title)].val.content

\* where the block of the i-th passed title starts in the context
RECURSIVE Offset(_, _, _)
Offset(titles, data, i) ==
    IF i = 1 THEN 0
    ELSE Offset(titles, data, i - 1)
         + (IF titles[i - 1] \in Keys(data)
            THEN Len(BlockOf(titles[i - 1], ContentOf(data, titles[i - 1])))
            ELSE 0)

ContextInOrder(block, titles, data) ==
    /\ Len(block) = Offset(titles, data, Len(titles) + 1)
    /\ \A i \in DOMAIN titles :
          titles[i] \in Keys(data) =>
              LET b == BlockOf(titles[i], ContentOf(data, titles[i]))
                  o == Offset(titles, data, i)
              IN SubSeq(block, o + 1, o + Len(b)) = b

PassedRecordsHaveContent(titles, store) ==
    /\ store.status = "ok"
    /\ \A i \in DOMAIN titles :
          titles[i] \in Keys(store.data) =>
              "content" \in DOMAIN store.data[Lookup(store.data, titles[i])].val

\* C7: when the reply tool is handed a list of titles, the context block it
\* builds is the concatenation, in the order given and one per occurrence,
\* of the blocks of the passed titles that are keys of the store, with
\* nothing for absent titles; it builds that block whenever the store is
\* readable and every passed record has its content.
C7_ContextBlockInOrder ==
    (call.tool = "reply" /\ call.titles.t = "list") =>
        /\ ctx.built =>
              /\ PassedRecordsHaveContent(call.titles.items, DocStore)
              /\ ContextInOrder(ctx.block, call.titles.items, DocStore.data)
        /\ PassedRecordsHaveContent(call.titles.items, DocStore) => ctx.built

\* C7 witness: a list with an absent title, a repeated present title and a
\* second present title, for which a non-empty context was built
C7_Witness ==
    /\ call.tool = "reply"
    /\ call.titles = JsonList(<<T1, T3, T2>>)
    /\ ctx.built
    /\ Len(ctx.block) > 0

\* C9: with a missing or malformed store, importing the script and invoking
\* any of its three tools yields a returned payload, never an exception.
C9_StoreErrorsNeverPropagate ==
    (call.tool \in {"import", "lookup", "search", "reply"} /\ call.streamOk)
        => result.kind = "return"

----------------------------------------------------------------------------
(* Properties of an instance serving several requests (checked under       *)
(* SpecMulti)                                                              *)

\* the history a completion request carries: the instance's conversation
SentHistory == messages

\* the turns added by earlier requests
EarlierTurns == SubSeq(messages, 1, base)

UserTurns == {i \in DOMAIN messages : messages[i].role = "user"}

\* C11 as stated: whenever a request is being served its conversation began
\* with that request's user input as the only turn, and the history sent to
\* the model holds no turn of an earlier request.
C11_ConversationOfOneRequest ==
    state \in {"AWAITING_MODEL", "EXECUTING_TOOL"} =>
        /\ SentHistory[1] = UserTurn
        /\ UserTurns = {1}
        /\ EarlierTurns = <<>>

\* C11 amended: the conversation belongs to the loop instance.  The first
\* run() of an instance starts from the user input as only turn; every
\* later run() appends its user input after the turns of the earlier
\* requests, and those turns are never removed, so they are part of every
\* history sent afterwards.
C11_ConversationOfTheInstance ==
    /\ [](nrun >= 1 =>
            /\ base < Len(messages)
            /\ messages[base + 1] = UserTurn
            /\ Cardinality(UserTurns) = nrun
            /\ nrun = 1 => base = 0)
    /\ [][/\ Len(messages') >= Len(messages)
          /\ SubSeq(messages', 1, Len(messages)) = messages
          /\ nrun' > nrun => base' = Len(messages)]_vars

\* C11 witness: the second request of an instance awaits the model with
\* the earlier request's user turn, tool-call request and tool result in
\* the history
C11_Witness ==
    /\ nrun = 2
    /\ state = "AWAITING_MODEL"
    /\ base >= 3
    /\ messages[base + 1] = UserTurn
    /\ \E i \in 1..base : messages[i].role = "tool"

====
